---- MODULE Spec2Model ----
(***************************************************************************)
(* TaskScheduler (src/modules/task_scheduler.py) over schedule.Scheduler.  *)
(*                                                                         *)
(* Time is wall-clock seconds since midnight of day 0.  Text arguments are *)
(* sequences of one-character strings, so that int() and the HH:MM check   *)
(* of Job.at() are computed character by character.                        *)
(***************************************************************************)
EXTENDS Integers, Sequences, FiniteSets, TLC

VARIABLES
    now,              \* datetime.datetime.now(), in seconds
    jobs,             \* self.scheduler.jobs: the registry, a list of Job objects (ids)
    job,              \* the Job objects ever created, by id
    is_running,       \* self.is_running
    scheduler_thread, \* self.scheduler_thread (0 is None)
    ticks,            \* number of clock advances so far
    fg,               \* the loop context of a blocking run() the host is inside (0: none)
    pc,               \* each loop context's position in _run_loop
    queue,            \* each loop context's sorted(runnable_jobs) still to run
    raised,           \* each loop context: the job whose action raised, and its next_run then
    hpc,              \* the host thread: idle, in stop()'s join, in a blocking run(), hung
    hooks,            \* number of atexit.register(self.stop) registrations
    last,             \* the host's most recent call, its arguments and its outcome
    removedIdle,      \* history: the jobs registered under the name of a remove_task call
                      \* made while no loop context was inside a poll, each with that
                      \* name and the next unused Job id of that moment
    stopEver,         \* history: stop() has cleared the flag at least once
    stopped,          \* history: the loop contexts alive when a stop() cleared the flag
    reminders,        \* RemindersManager.reminders: the list of reminder dicts
    reminders_file,   \* the list last written to the reminders JSON file
    rem_last,         \* the most recent RemindersManager call and what it returned
    other,            \* a second host thread: the call it is inside, its position and locals
    scan,             \* each loop context's index into scheduler.jobs while run_pending
                      \* collects the runnable jobs one by one (0: not collecting)
    conversation_history, \* AIQuery.conversation_history: the list of message dicts
    ai_last,          \* the most recent AIQuery call, what it raised and the number
                      \* of messages it sent to the API
    system_prompt     \* history: the text of the last set_system_prompt call made
                      \* since construction or the last clear_history (<<>>: none)

\* RemindersManager (src/ai_assistant/modules/reminders.py)
remVars == <<reminders, reminders_file, rem_last>>

\* TaskScheduler with the steps of its calls and of run_pending taken one at a time
concVars == <<other, scan>>

\* AIQuery (src/ai_assistant/modules/ai_query.py)
aiVars == <<conversation_history, ai_last, system_prompt>>

\* what the TaskScheduler operations taken as a whole leave alone
others == <<remVars, concVars, aiVars>>

\* TaskScheduler
schedVars == <<now, ticks, jobs, job, is_running, scheduler_thread, pc, queue, raised,
               hpc, fg, hooks, last, removedIdle, stopEver, stopped>>

vars == <<schedVars, others>>

----------------------------------------------------------------------------
(* Bounds of the model *)

MaxJobs == 2        \* Job objects ever created
MaxRuns == 2        \* run() calls that get past the already-running guard
MaxTicks == 1       \* clock advances
LifeJobs == 1       \* Job objects ever created under LifeSpec
PollRuns == 1       \* loops ever started under PollSpec
StartNow == 37815   \* the clock at construction: day 0, 10:30:15
MaxId == 3          \* largest reminder id handed out

(* Calendar constants of datetime.timedelta *)
SecPerMinute == 60
SecPerHour == 3600
SecPerDay == 86400

Ctx == 1..MaxRuns
JobIds == 1..MaxJobs
NoJob == [unit |-> "none"]    \* an id no Job has yet
Gone == [unit |-> "gone"]     \* a Job nothing refers to any more
None == 0

----------------------------------------------------------------------------
(* Text *)

Digits == <<"0", "1", "2", "3", "4", "5", "6", "7", "8", "9">>

IsDigit(c) == \E i \in 1..10 : Digits[i] = c

DigitVal(c) == (CHOOSE i \in 1..10 : Digits[i] = c) - 1

AllDigits(s) == \A i \in 1..Len(s) : IsDigit(s[i])

RECURSIVE DecVal(_)
DecVal(s) == IF s = <<>> THEN 0
             ELSE 10 * DecVal(SubSeq(s, 1, Len(s) - 1)) + DigitVal(s[Len(s)])

\* int(trigger_time): an optional sign, then one or more decimal digits;
\* anything else is a ValueError.
IntOk(s) ==
    LET body == IF s # <<>> /\ s[1] \in {"-", "+"} THEN Tail(s) ELSE s
    IN  body # <<>> /\ AllDigits(body)

IntVal(s) ==
    IF s[1] = "-" THEN 0 - DecVal(Tail(s))
    ELSE IF s[1] = "+" THEN DecVal(Tail(s))
    ELSE DecVal(s)

\* Job.at() for a daily job: the text matches [0-2]\d:[0-5]\d(:[0-5]\d)?
AtFormatOk(s) ==
    /\ Len(s) \in {5, 8}
    /\ s[1] \in {"0", "1", "2"} /\ IsDigit(s[2])
    /\ s[3] = ":"
    /\ s[4] \in {"0", "1", "2", "3", "4", "5"} /\ IsDigit(s[5])
    /\ (Len(s) = 8 =>
          /\ s[6] = ":"
          /\ s[7] \in {"0", "1", "2", "3", "4", "5"} /\ IsDigit(s[8]))

AtHour(s) == DecVal(SubSeq(s, 1, 2))
AtMinute(s) == DecVal(SubSeq(s, 4, 5))
AtSecond(s) == IF Len(s) = 8 THEN DecVal(SubSeq(s, 7, 8)) ELSE 0

\* Job.at(): the hour must lie in 0..23
AtHourOk(s) == AtHour(s) <= 23

\* datetime.time(hour, minute, second), as seconds since midnight
AtTime(s) == AtHour(s) * SecPerHour + AtMinute(s) * SecPerMinute + AtSecond(s)

----------------------------------------------------------------------------
(* Cadence: schedule.Job *)

ValidUnits == {"days", "hours", "minutes", "seconds"}

UnitSeconds(unit) ==
    CASE unit = "days" -> SecPerDay
      [] unit = "hours" -> SecPerHour
      [] unit = "minutes" -> SecPerMinute
      [] unit = "seconds" -> 1

TimeOfDay(t) == t % SecPerDay
Midnight(t) == t - TimeOfDay(t)

\* Job._schedule_next_run with the move to the at_time always landing on the
\* day of t, also when that time of day has passed
NextRunSameDay(unit, interval, has_at, at, t, last_run) ==
    IF has_at THEN Midnight(t) + at
    ELSE t + interval * UnitSeconds(unit)

\* Job._schedule_next_run at clock t: one period ahead; a job with an at_time
\* is moved to that time of the day, and back to today while it is still ahead.
\* last_run is None at registration and t right after a run.
NextRun(unit, interval, has_at, at, t, last_run) ==
    LET period == interval * UnitSeconds(unit)
        ahead == t + period
        moved == Midnight(ahead) + at
    IN  IF ~has_at THEN ahead
        ELSE IF (last_run = None \/ moved - last_run > period)
                /\ unit = "days" /\ at > TimeOfDay(t) /\ interval = 1
             THEN moved - SecPerDay
             ELSE moved

\* Job.should_run
ShouldRun(j, t) == t >= j.next_run

NewJob(task_name, unit, interval, has_at, at, task, t) ==
    [unit |-> unit, interval |-> interval, has_at |-> has_at, at |-> at,
     next_run |-> NextRun(unit, interval, has_at, at, t, None),
     tags |-> {task_name},
     act |-> IF task = "none" THEN "ok" ELSE task]

Failure(kind) == [raised |-> kind, job |-> NoJob]

\* schedule_reminder, lines 72-81: int(trigger_time), then every(interval).<unit>.do(task).
\* every() takes any integer.  For an interval below 1 the outcome depends on the
\* release of the schedule package: the job is accepted with next_run = now + interval
\* periods, or _schedule_next_run never returns.
IntervalOutcomes(task_name, trigger_time, task, unit, t) ==
    IF ~IntOk(trigger_time) THEN {Failure("ValueError")}
    ELSE LET interval == IntVal(trigger_time)
             made == [raised |-> "none",
                      job |-> NewJob(task_name, unit, interval, FALSE, 0, task, t)]
         IN  IF interval >= 1 THEN {made} ELSE {made, Failure("hang")}

\* schedule_reminder, line 69: every().day.at(trigger_time).do(task).
\* ScheduleValueError is not a ValueError, so line 92 turns it into RuntimeError.
DailyOutcomes(task_name, trigger_time, task, t) ==
    IF ~AtFormatOk(trigger_time) \/ ~AtHourOk(trigger_time)
    THEN {Failure("RuntimeError")}
    ELSE {[raised |-> "none",
           job |-> NewJob(task_name, "days", 1, TRUE, AtTime(trigger_time), task, t)]}

\* schedule_reminder with the chain of line 67-81 ending in a catch-all branch and
\* no check of the unit
ScheduleOutcomesAnyUnit(task_name, trigger_time, task, unit, t) ==
    IF task_name = "" THEN {Failure("ValueError")}
    ELSE IF trigger_time = <<>> THEN {Failure("ValueError")}
    ELSE IF task = "notcallable" THEN {Failure("TypeError")}
    ELSE IF unit = "days" THEN DailyOutcomes(task_name, trigger_time, task, t)
    ELSE IntervalOutcomes(task_name, trigger_time, task,
                          IF unit \in ValidUnits THEN unit ELSE "seconds", t)

\* schedule_reminder, lines 48-94: what the call raises and the Job it registers
ScheduleOutcomes(task_name, trigger_time, task, unit, t) ==
    IF task_name = "" THEN {Failure("ValueError")}
    ELSE IF trigger_time = <<>> THEN {Failure("ValueError")}
    ELSE IF unit \notin ValidUnits THEN {Failure("ValueError")}
    ELSE IF task = "notcallable" THEN {Failure("TypeError")}
    ELSE IF unit = "days" THEN DailyOutcomes(task_name, trigger_time, task, t)
    ELSE IntervalOutcomes(task_name, trigger_time, task, unit, t)

----------------------------------------------------------------------------
(* The registry: schedule.Scheduler *)

Range(q) == {q[i] : i \in 1..Len(q)}

NewId == 1 + Cardinality({i \in JobIds : job[i] # NoJob})

\* a Job that is neither in the registry r nor in a sorted list of q is garbage
Collect(store, r, q) ==
    [i \in JobIds |->
        IF store[i] # NoJob /\ i \notin Range(r) /\ \A t \in Ctx : i \notin Range(q[t])
        THEN Gone ELSE store[i]]

HasTag(id, tag) == tag \in job[id].tags

\* Scheduler.clear(tag) keeping every match but the first one
ClearedFirstOnly(tag) ==
    LET hit == {i \in 1..Len(jobs) : HasTag(jobs[i], tag)}
        first == CHOOSE i \in hit : \A k \in hit : i <= k
    IN  IF hit = {} THEN jobs
        ELSE SubSeq(jobs, 1, first - 1) \o SubSeq(jobs, first + 1, Len(jobs))

\* Scheduler.clear(tag) taken as clear(): every job goes
ClearedAnyTag(tag) == SelectSeq(jobs, LAMBDA id : FALSE)

\* Scheduler.clear(tag): jobs[:] = (job for job in jobs if tag not in job.tags)
Cleared(tag) == SelectSeq(jobs, LAMBDA id : ~HasTag(id, tag))

\* get_pending_tasks: [job.tags for job in self.scheduler.jobs]
PendingTasks == [i \in 1..Len(jobs) |-> job[jobs[i]].tags]

\* Python values: job.tags is a set object, a task name is a str
PySet(S) == [type |-> "set", items |-> S]
PyStr(n) == [type |-> "str", items |-> {n}]

\* the list get_pending_tasks returns, as Python values
PendingValues == [i \in 1..Len(PendingTasks) |-> PySet(PendingTasks[i])]

\* the job list taken as guarded by a lock that run_pending holds
RegistryFreeOutsidePoll == \A t \in Ctx : pc[t] \notin {"scan", "poll", "blocked"}

\* TaskScheduler and schedule.Scheduler read and write self.jobs directly: no
\* lock is taken, a caller never waits for the loop
RegistryFree == TRUE

\* the runnable jobs of run_pending, in registry order
Runnable == SelectSeq(jobs, LAMBDA id : ShouldRun(job[id], now))

\* sorted(): stable, by Job.__lt__, which compares next_run
RECURSIVE InsertByNextRun(_, _)
InsertByNextRun(id, q) ==
    IF q = <<>> THEN <<id>>
    ELSE IF job[id].next_run < job[Head(q)].next_run THEN <<id>> \o q
    ELSE <<Head(q)>> \o InsertByNextRun(id, Tail(q))

RECURSIVE Sorted(_)
Sorted(q) ==
    IF q = <<>> THEN <<>>
    ELSE InsertByNextRun(q[Len(q)], Sorted(SubSeq(q, 1, Len(q) - 1)))

----------------------------------------------------------------------------
(* Loop contexts *)

\* pc: "unborn", "wait" (started or asleep, before the while test), "scan" (inside
\* run_pending, collecting the runnable jobs), "poll" (inside run_pending, running
\* them), "blocked" (inside a job action that never returns), "handler"
\* (inside the except clause), "dead" (_run_loop returned), "killed" (_run_loop
\* left by an exception that line 164 does not catch)
Alive(t) == pc[t] \in {"wait", "scan", "poll", "blocked", "handler"}

NewCtx == 1 + Cardinality({t \in Ctx : pc[t] # "unborn"})

NoRaise == [id |-> None, next_run |-> 0, dropped |-> 0]

\* A host call: its arguments, what it found (count: the registry's length, had:
\* the name was registered, at: the clock), what it raised and returned (ok: the
\* bool returned, listing: the list returned, jid: the Job returned), and whether
\* it changed the scheduler (changed).
NoCall ==
    [op |-> "init", name |-> "", unit |-> "", trig |-> <<>>, task |-> "none",
     raised |-> "none", ok |-> FALSE, listing |-> <<>>, jid |-> None, count |-> 0,
     had |-> FALSE, changed |-> FALSE, at |-> 0]

Call(op) == [NoCall EXCEPT !.op = op, !.count = Len(jobs)]

\* RemindersManager.__init__ with no reminders file yet: _load_reminders writes []
RemInit ==
    /\ reminders = <<>>
    /\ reminders_file = <<>>
    /\ rem_last = [op |-> "init", id |-> 0, ok |-> FALSE]

\* the loop contexts inside run_pending
InRunPending == {t \in Ctx : pc[t] \in {"scan", "poll", "blocked"}}

\* where the loop contexts inside run_pending are
LoopAt == {pc[t] : t \in InRunPending}

\* a host thread that is inside no call (made: the Job it is about to append, jid:
\* the Job its call returned, at: the clock of the call, during: where the loop
\* contexts inside run_pending were when the call reached the job list)
OtherIdle ==
    [op |-> "none", pc |-> "idle", name |-> "", initial_count |-> 0,
     had |-> FALSE, ok |-> FALSE, made |-> NoJob, jid |-> None, at |-> 0,
     during |-> {}]

ConcInit ==
    /\ other = OtherIdle
    /\ scan = [t \in Ctx |-> 0]

\* AIQuery.__init__, line 51: an empty history
AiInit ==
    /\ conversation_history = <<>>
    /\ ai_last = [op |-> "init", raised |-> "none", sent |-> 0]
    /\ system_prompt = <<>>

Init ==
    /\ now = StartNow
    /\ ticks = 0
    /\ jobs = <<>>
    /\ job = [i \in JobIds |-> NoJob]
    /\ is_running = FALSE
    /\ scheduler_thread = None
    /\ pc = [t \in Ctx |-> "unborn"]
    /\ queue = [t \in Ctx |-> <<>>]
    /\ raised = [t \in Ctx |-> NoRaise]
    /\ hpc = "idle"
    /\ fg = None
    /\ hooks = 0
    /\ last = NoCall
    /\ removedIdle = {}
    /\ stopEver = FALSE
    /\ stopped = {}
    /\ RemInit
    /\ ConcInit
    /\ AiInit

loopVars == <<is_running, scheduler_thread, pc, queue, raised, fg, hooks, stopEver,
              stopped>>

----------------------------------------------------------------------------
(* Host calls *)

\* schedule_reminder(task_name, trigger_time, task, unit)
ScheduleReminder(task_name, trigger_time, task, unit) ==
    /\ hpc = "idle"
    /\ \E out \in ScheduleOutcomes(task_name, trigger_time, task, unit, now) :
         LET call == [Call("schedule_reminder") EXCEPT
                         !.name = task_name, !.unit = unit, !.trig = trigger_time,
                         !.task = task, !.raised = out.raised, !.at = now]
         IN  IF out.job = NoJob
             THEN /\ last' = call
                  /\ hpc' = IF out.raised = "hang" THEN "hung" ELSE "idle"
                  /\ UNCHANGED <<jobs, job>>
             ELSE /\ NewId <= MaxJobs
                  /\ job' = [job EXCEPT ![NewId] = out.job]
                  /\ jobs' = Append(jobs, NewId)
                  /\ last' = [call EXCEPT !.jid = NewId,
                                           !.changed = (jobs' # jobs \/ job' # job)]
                  /\ hpc' = hpc
    /\ UNCHANGED <<now, ticks, removedIdle>>
    /\ UNCHANGED loopVars
    /\ UNCHANGED others

\* remove_task, line 199, with <= for <
RemovedOrSame(initial_count, kept) == Len(kept) <= initial_count

\* remove_task, line 199: removed = len(self.scheduler.jobs) < initial_count
Removed(initial_count, kept) == Len(kept) < initial_count

\* remove_task(task_name)
RemoveTask(task_name) ==
    /\ hpc = "idle"
    /\ LET initial_count == Len(jobs)
           kept == Cleared(task_name)
           removed == Removed(initial_count, kept)
       IN  /\ jobs' = kept
           /\ job' = Collect(job, kept, queue)
           /\ last' = [Call("remove_task") EXCEPT
                          !.name = task_name, !.ok = removed, !.changed = (kept # jobs),
                          !.had = (\E id \in Range(jobs) : HasTag(id, task_name))]
           /\ removedIdle' =
                 IF \A t \in Ctx : pc[t] # "poll"
                 THEN removedIdle \cup
                        {[id |-> id, name |-> task_name, fence |-> NewId] :
                            id \in {i \in Range(jobs) : HasTag(i, task_name)}}
                 ELSE removedIdle
    /\ UNCHANGED <<now, ticks, hpc>>
    /\ UNCHANGED loopVars
    /\ UNCHANGED others

\* clear_all()
ClearAll ==
    /\ hpc = "idle"
    /\ jobs' = <<>>
    /\ job' = Collect(job, <<>>, queue)
    /\ last' = [Call("clear_all") EXCEPT !.changed = (jobs # <<>>)]
    /\ UNCHANGED <<now, ticks, hpc, removedIdle>>
    /\ UNCHANGED loopVars
    /\ UNCHANGED others

\* get_pending_tasks()
GetPendingTasks ==
    /\ hpc = "idle"
    /\ last' = [Call("get_pending_tasks") EXCEPT !.listing = PendingValues]
    /\ UNCHANGED <<now, ticks, jobs, job, hpc, removedIdle>>
    /\ UNCHANGED loopVars
    /\ UNCHANGED others

\* run() with the guard of line 132 never taken
AlreadyRunningNever == FALSE

\* run(), line 132
AlreadyRunning == is_running

\* run(background, interval)
Run(background) ==
    /\ hpc = "idle"
    /\ last' = [Call("run") EXCEPT !.ok = background, !.changed = ~AlreadyRunning]
    /\ IF AlreadyRunning
       THEN UNCHANGED <<is_running, scheduler_thread, pc, fg, hooks, hpc>>
       ELSE /\ NewCtx <= MaxRuns
            /\ is_running' = TRUE
            /\ pc' = [pc EXCEPT ![NewCtx] = "wait"]
            /\ IF background
               THEN /\ scheduler_thread' = NewCtx
                    /\ hooks' = hooks + 1
                    /\ UNCHANGED <<fg, hpc>>
               ELSE /\ fg' = NewCtx
                    /\ hpc' = "looping"
                    /\ UNCHANGED <<scheduler_thread, hooks>>
    /\ UNCHANGED <<now, ticks, jobs, job, queue, raised, removedIdle, stopEver,
                   stopped>>
    /\ UNCHANGED others

\* run(background=False), lines 148-151: _run_loop has returned
RunReturn ==
    /\ hpc = "looping"
    /\ pc[fg] = "dead"
    /\ hpc' = "idle"
    /\ fg' = None
    /\ hooks' = hooks + 1
    /\ UNCHANGED <<now, ticks, jobs, job, is_running, scheduler_thread, pc, queue,
                   raised, last, removedIdle, stopEver, stopped>>
    /\ UNCHANGED others

\* run(background=False), line 148: _run_loop was left by an exception that is
\* not an Exception; it leaves run() too, before line 151
RunRaises ==
    /\ hpc = "looping"
    /\ pc[fg] = "killed"
    /\ hpc' = "idle"
    /\ fg' = None
    /\ last' = [last EXCEPT !.raised = "SystemExit"]
    /\ UNCHANGED <<now, ticks, jobs, job, is_running, scheduler_thread, pc, queue,
                   raised, hooks, removedIdle, stopEver, stopped>>
    /\ UNCHANGED others

\* stop() raising when the scheduler is not running
StopOutcomeStrict ==
    IF ~is_running THEN [raised |-> "RuntimeError", flag |-> is_running, join |-> FALSE]
    ELSE [raised |-> "none", flag |-> FALSE,
          join |-> scheduler_thread # None /\ Alive(scheduler_thread)]

\* stop(), lines 170-175: the exception raised, the flag left, whether it joins
StopOutcome ==
    IF ~is_running THEN [raised |-> "none", flag |-> is_running, join |-> FALSE]
    ELSE [raised |-> "none", flag |-> FALSE,
          join |-> scheduler_thread # None /\ Alive(scheduler_thread)]

\* stop()
Stop ==
    /\ hpc = "idle"
    /\ LET out == StopOutcome
       IN  /\ is_running' = out.flag
           /\ hpc' = IF out.join THEN "joining" ELSE "idle"
           /\ stopEver' = (stopEver \/ is_running)
           /\ stopped' = IF is_running THEN stopped \cup {t \in Ctx : Alive(t)}
                          ELSE stopped
           /\ last' = [Call("stop") EXCEPT
                          !.raised = out.raised, !.had = is_running,
                          !.changed = (is_running' # is_running \/ hpc' # hpc)]
    /\ UNCHANGED <<now, ticks, jobs, job, scheduler_thread, pc, queue, raised, fg,
                   hooks, removedIdle>>
    /\ UNCHANGED others

\* stop(), line 175: join() returns because the thread has ended
JoinDone ==
    /\ hpc = "joining"
    /\ ~Alive(scheduler_thread)
    /\ hpc' = "idle"
    /\ UNCHANGED <<now, ticks, jobs, job, last, removedIdle>>
    /\ UNCHANGED loopVars
    /\ UNCHANGED others

\* join() called without a timeout
JoinUnbounded == FALSE

\* stop(), line 175: join(timeout=5), the wait is bounded
JoinBounded == TRUE

\* stop(), line 175: join(timeout=5) gives up on a thread that is still alive
JoinTimeout ==
    /\ hpc = "joining"
    /\ JoinBounded
    /\ Alive(scheduler_thread)
    /\ hpc' = "idle"
    /\ UNCHANGED <<now, ticks, jobs, job, last, removedIdle>>
    /\ UNCHANGED loopVars
    /\ UNCHANGED others

----------------------------------------------------------------------------
(* _run_loop, one loop context t *)

hostVars == <<hpc, fg, hooks, last, scheduler_thread, stopEver, stopped>>

\* line 161-162: the while test, then run_pending collects and sorts the due jobs
LoopCheck(t) ==
    /\ pc[t] = "wait"
    /\ IF is_running
       THEN /\ pc' = [pc EXCEPT ![t] = "poll"]
            /\ queue' = [queue EXCEPT ![t] = Sorted(Runnable)]
       ELSE /\ pc' = [pc EXCEPT ![t] = "dead"]
            /\ UNCHANGED queue
    /\ UNCHANGED <<now, ticks, jobs, job, is_running, raised, removedIdle>>
    /\ UNCHANGED hostVars
    /\ UNCHANGED others

\* Job.run: ret = self.job_func(); last_run = now; _schedule_next_run().
\* An exception of job_func leaves the Job as it was and propagates; a job_func
\* that never returns (act "block") leaves the loop context inside it.
AfterAction(j, t) ==
    IF j.act = "raise" THEN [raises |-> TRUE, job |-> j]
    ELSE [raises |-> FALSE,
          job |-> [j EXCEPT !.next_run = NextRun(j.unit, j.interval, j.has_at, j.at, t, t)]]

\* what a job action returns: the default action and a plain callable None,
\* email_summary_task its summary, and a callable may return schedule.CancelJob
Returned(act) ==
    CASE act = "summary" -> "summary"
      [] act = "cancel" -> "CancelJob"
      [] OTHER -> "None"

\* Scheduler._run_job: ret = job.run(); if ret is CancelJob, cancel_job(job) takes
\* the job out of self.jobs
AfterReturn(ret, id) ==
    IF ret = "CancelJob" THEN SelectSeq(jobs, LAMBDA i : i # id) ELSE jobs

\* run_pending: _run_job on the next job of the sorted list.  An exception leaves
\* run_pending for the handler of line 164; the rest of the list is dropped.  The
\* handler is "except Exception": a SystemExit raised by the action (act "exit")
\* passes it and ends the loop context with is_running as it was.
RunJob(t) ==
    /\ pc[t] = "poll"
    /\ queue[t] # <<>>
    /\ LET id == Head(queue[t])
           out == AfterAction(job[id], now)
       IN  IF job[id].act = "block"
           THEN /\ pc' = [pc EXCEPT ![t] = "blocked"]
                /\ UNCHANGED <<queue, jobs, job, raised>>
           ELSE IF job[id].act = "exit"
           THEN /\ pc' = [pc EXCEPT ![t] = "killed"]
                /\ queue' = [queue EXCEPT ![t] = <<>>]
                /\ job' = Collect(job, jobs, queue')
                /\ UNCHANGED <<jobs, raised>>
           ELSE IF out.raises
           THEN /\ pc' = [pc EXCEPT ![t] = "handler"]
                /\ raised' = [raised EXCEPT ![t] =
                                 [id |-> id, next_run |-> job[id].next_run,
                                  dropped |-> Len(queue[t]) - 1]]
                /\ queue' = [queue EXCEPT ![t] = <<>>]
                /\ job' = Collect(job, jobs, queue')
                /\ UNCHANGED jobs
           ELSE /\ queue' = [queue EXCEPT ![t] = Tail(queue[t])]
                /\ jobs' = AfterReturn(Returned(job[id].act), id)
                /\ job' = Collect([job EXCEPT ![id] = out.job], jobs', queue')
                /\ UNCHANGED <<pc, raised>>
    /\ UNCHANGED <<now, ticks, is_running, removedIdle>>
    /\ UNCHANGED hostVars
    /\ UNCHANGED others

\* line 163: run_pending is through; time.sleep(interval), then back to the while test
PollDone(t) ==
    /\ pc[t] = "poll"
    /\ queue[t] = <<>>
    /\ pc' = [pc EXCEPT ![t] = "wait"]
    /\ UNCHANGED <<now, ticks, jobs, job, is_running, queue, raised, removedIdle>>
    /\ UNCHANGED hostVars
    /\ UNCHANGED others

\* lines 164-166: the handler clears the flag and _run_loop returns
HandleError(t) ==
    /\ pc[t] = "handler"
    /\ is_running' = FALSE
    /\ pc' = [pc EXCEPT ![t] = "dead"]
    /\ UNCHANGED <<now, ticks, jobs, job, queue, raised, removedIdle>>
    /\ UNCHANGED hostVars
    /\ UNCHANGED others

\* the wall clock advances by a second or by a day
Tick(d) ==
    /\ ticks < MaxTicks
    /\ ticks' = ticks + 1
    /\ now' = now + d
    /\ UNCHANGED <<jobs, job, hpc, last, removedIdle>>
    /\ UNCHANGED loopVars
    /\ UNCHANGED others

----------------------------------------------------------------------------
(* Text arguments *)

Txt1 == <<"1">>
Txt0 == <<"0">>
TxtMinus1 == <<"-", "1">>
TxtAbc == <<"a", "b", "c">>
Txt1030 == <<"1", "0", ":", "3", "0">>
Txt2359 == <<"2", "3", ":", "5", "9">>
Txt2400 == <<"2", "4", ":", "0", "0">>
Txt1060 == <<"1", "0", ":", "6", "0">>
Txt705 == <<"7", ":", "0", "5">>

\* the registrations of the lifecycle specification: <<task_name, trigger_time, task, unit>>
LoopCalls == {<<"a", Txt1, "ok", "seconds">>,
              <<"a", Txt1, "raise", "seconds">>,
              <<"b", Txt1030, "ok", "days">>}
LoopNames == {"a", "b"}

Next ==
    \/ \E c \in LoopCalls : ScheduleReminder(c[1], c[2], c[3], c[4])
    \/ \E n \in LoopNames : RemoveTask(n)
    \/ ClearAll
    \/ GetPendingTasks
    \/ \E b \in BOOLEAN : Run(b)
    \/ RunReturn
    \/ Stop
    \/ JoinDone
    \/ JoinTimeout
    \/ \E t \in Ctx : LoopCheck(t)
    \/ \E t \in Ctx : RunJob(t)
    \/ \E t \in Ctx : PollDone(t)
    \/ \E t \in Ctx : HandleError(t)
    \/ \E d \in {1, SecPerDay} : Tick(d)

Spec == Init /\ [][Next]_vars

----------------------------------------------------------------------------
(* The lifecycle over jobs of one cadence: every operation of Next, registrations
   of a job that succeeds and of one that raises, the clock advancing by seconds.
   LifeSpec bounds the jobs, PollSpec the loops. *)

LifeCalls == {<<"a", Txt1, "ok", "seconds">>,
              <<"a", Txt1, "raise", "seconds">>}

LifeNext(maxJobs, maxRuns) ==
    \/ /\ NewId <= maxJobs
       /\ \E c \in LifeCalls : ScheduleReminder(c[1], c[2], c[3], c[4])
    \/ \E n \in LoopNames : RemoveTask(n)
    \/ ClearAll
    \/ GetPendingTasks
    \/ /\ AlreadyRunning \/ NewCtx <= maxRuns
       /\ \E b \in BOOLEAN : Run(b)
    \/ RunReturn
    \/ Stop
    \/ JoinDone
    \/ JoinTimeout
    \/ \E t \in Ctx : LoopCheck(t)
    \/ \E t \in Ctx : RunJob(t)
    \/ \E t \in Ctx : PollDone(t)
    \/ \E t \in Ctx : HandleError(t)
    \/ Tick(1)

LifeSpec == Init /\ [][LifeNext(LifeJobs, MaxRuns)]_vars

PollSpec == Init /\ [][LifeNext(MaxJobs, PollRuns)]_vars

----------------------------------------------------------------------------
(* The lifecycle over jobs whose actions return a value: None, the summary of
   email_summary_task, schedule.CancelJob. *)

RetCalls == {<<"a", Txt1, "ok", "seconds">>,
             <<"a", Txt1, "cancel", "seconds">>,
             <<"b", Txt1, "summary", "seconds">>}

RetNext ==
    \/ /\ NewId <= MaxJobs
       /\ \E c \in RetCalls : ScheduleReminder(c[1], c[2], c[3], c[4])
    \/ \E n \in LoopNames : RemoveTask(n)
    \/ ClearAll
    \/ GetPendingTasks
    \/ /\ AlreadyRunning \/ NewCtx <= PollRuns
       /\ Run(TRUE)
    \/ Stop
    \/ JoinDone
    \/ JoinTimeout
    \/ \E t \in Ctx : LoopCheck(t)
    \/ \E t \in Ctx : RunJob(t)
    \/ \E t \in Ctx : PollDone(t)
    \/ Tick(1)

RetSpec == Init /\ [][RetNext]_vars

----------------------------------------------------------------------------
(* The loop over jobs of every cadence schedule_reminder accepts, polls coming a
   second or a day apart. *)

BackCalls == {<<"a", Txt1, "ok", "seconds">>,
              <<"a", Txt0, "ok", "seconds">>,
              <<"b", Txt1030, "ok", "days">>}

BackNext ==
    \/ /\ NewId <= MaxJobs
       /\ \E c \in BackCalls : ScheduleReminder(c[1], c[2], c[3], c[4])
    \/ \E n \in LoopNames : RemoveTask(n)
    \/ /\ AlreadyRunning \/ NewCtx <= PollRuns
       /\ Run(TRUE)
    \/ \E t \in Ctx : LoopCheck(t)
    \/ \E t \in Ctx : RunJob(t)
    \/ \E t \in Ctx : PollDone(t)
    \/ \E d \in {1, SecPerDay} : Tick(d)

BackSpec == Init /\ [][BackNext]_vars

----------------------------------------------------------------------------
(* The lifecycle over jobs whose actions fail: by raising an Exception, or by
   raising SystemExit as a callable that calls sys.exit() does. *)

ExitCalls == LifeCalls \cup {<<"a", Txt1, "exit", "seconds">>}

ExitNext ==
    \/ /\ NewId <= LifeJobs
       /\ \E c \in ExitCalls : ScheduleReminder(c[1], c[2], c[3], c[4])
    \/ \E n \in LoopNames : RemoveTask(n)
    \/ /\ AlreadyRunning \/ NewCtx <= MaxRuns
       /\ \E b \in BOOLEAN : Run(b)
    \/ RunReturn
    \/ RunRaises
    \/ Stop
    \/ JoinDone
    \/ JoinTimeout
    \/ \E t \in Ctx : LoopCheck(t)
    \/ \E t \in Ctx : RunJob(t)
    \/ \E t \in Ctx : PollDone(t)
    \/ \E t \in Ctx : HandleError(t)
    \/ Tick(1)

ExitSpec == Init /\ [][ExitNext]_vars

----------------------------------------------------------------------------
(* The lifecycle with a job whose action never returns, under fair scheduling:
   a thread that can take a step takes it, and join(timeout=5) ends. *)

StopCalls == LifeCalls \cup {<<"a", Txt1, "block", "seconds">>}

StopNext ==
    \/ /\ NewId <= LifeJobs
       /\ \E c \in StopCalls : ScheduleReminder(c[1], c[2], c[3], c[4])
    \/ \E n \in LoopNames : RemoveTask(n)
    \/ ClearAll
    \/ GetPendingTasks
    \/ /\ AlreadyRunning \/ NewCtx <= PollRuns
       /\ \E b \in BOOLEAN : Run(b)
    \/ RunReturn
    \/ Stop
    \/ JoinDone
    \/ JoinTimeout
    \/ \E t \in Ctx : LoopCheck(t)
    \/ \E t \in Ctx : RunJob(t)
    \/ \E t \in Ctx : PollDone(t)
    \/ \E t \in Ctx : HandleError(t)
    \/ Tick(1)

StopFair ==
    /\ WF_vars(JoinDone)
    /\ WF_vars(JoinTimeout)
    /\ \A t \in Ctx : WF_vars(LoopCheck(t) \/ RunJob(t) \/ PollDone(t) \/ HandleError(t))

StopSpec == Init /\ [][StopNext]_vars /\ StopFair

----------------------------------------------------------------------------
(* Registration on its own: the registry calls over a wide range of arguments *)

RegUnits == ValidUnits \cup {"weeks", ""}
RegTexts == {Txt1, Txt0, TxtMinus1, TxtAbc, <<>>, Txt1030, Txt2359, Txt2400,
             Txt1060, Txt705}

\* <<task_name, trigger_time, task, unit>>: every text as a daily time and as a
\* number of seconds, the numeric cases under the other units, and the calls with
\* an empty name or a task that is not callable
RegCalls ==
    {<<"a", x, "none", u>> : x \in RegTexts, u \in {"days", "seconds"}}
    \cup {<<"a", x, "none", u>> : x \in {Txt1, Txt0, TxtAbc}, u \in {"hours", "minutes"}}
    \cup {<<"a", x, "none", u>> : x \in {Txt1, Txt1030}, u \in RegUnits \ ValidUnits}
    \cup {<<"", Txt1, "none", "seconds">>, <<"", Txt1, "none", "weeks">>,
          <<"a", Txt1, "notcallable", "seconds">>,
          <<"a", Txt1, "notcallable", "weeks">>}

\* clocks at construction: 10:30:15, and 10:30:00 on the minute
RegNows == {StartNow, StartNow - (StartNow % SecPerMinute)}

RegInit ==
    /\ now \in RegNows
    /\ ticks = 0
    /\ jobs = <<>>
    /\ job = [i \in JobIds |-> NoJob]
    /\ is_running = FALSE
    /\ scheduler_thread = None
    /\ pc = [t \in Ctx |-> "unborn"]
    /\ queue = [t \in Ctx |-> <<>>]
    /\ raised = [t \in Ctx |-> NoRaise]
    /\ hpc = "idle"
    /\ fg = None
    /\ hooks = 0
    /\ last = NoCall
    /\ removedIdle = {}
    /\ stopEver = FALSE
    /\ stopped = {}
    /\ RemInit
    /\ ConcInit
    /\ AiInit

RegNext ==
    \/ \E c \in RegCalls : ScheduleReminder(c[1], c[2], c[3], c[4])
    \/ \E n \in LoopNames : RemoveTask(n)
    \/ ClearAll
    \/ GetPendingTasks

RegSpec == RegInit /\ [][RegNext]_vars

----------------------------------------------------------------------------
(* Two host threads and the loop, step by step.  The second host thread takes
   run(background=True) and remove_task one statement at a time, and run_pending
   collects the runnable jobs one list element at a time, so that the calls of
   the first host thread fall between those steps.  The second host thread makes
   one call. *)

\* run(), line 132, on the second host thread: the test of is_running
OtherRunGuard ==
    /\ other.pc = "idle"
    /\ other' = IF AlreadyRunning
                THEN [OtherIdle EXCEPT !.op = "run", !.pc = "returned"]
                ELSE [OtherIdle EXCEPT !.op = "run", !.pc = "set"]
    /\ UNCHANGED <<schedVars, scan, remVars, aiVars>>

\* run(), line 136: self.is_running = True
OtherRunSet ==
    /\ other.op = "run" /\ other.pc = "set"
    /\ is_running' = TRUE
    /\ other' = [other EXCEPT !.pc = "start"]
    /\ UNCHANGED <<now, ticks, jobs, job, scheduler_thread, pc, queue, raised, hpc, fg,
                   hooks, last, removedIdle, stopEver, stopped, scan, remVars, aiVars>>

\* run(), lines 141-151: the thread is created and started, the exit hook registered
OtherRunStart ==
    /\ other.op = "run" /\ other.pc = "start"
    /\ NewCtx <= MaxRuns
    /\ pc' = [pc EXCEPT ![NewCtx] = "wait"]
    /\ scheduler_thread' = NewCtx
    /\ hooks' = hooks + 1
    /\ other' = [other EXCEPT !.pc = "returned", !.ok = TRUE]
    /\ UNCHANGED <<now, ticks, jobs, job, is_running, queue, raised, hpc, fg, last,
                   removedIdle, stopEver, stopped, scan, remVars, aiVars>>

\* remove_task, line 197, on the second host thread: initial_count = len(jobs)
OtherRemoveCount(task_name) ==
    /\ other.pc = "idle"
    /\ other' = [OtherIdle EXCEPT !.op = "remove_task", !.pc = "clear",
                                  !.name = task_name, !.initial_count = Len(jobs)]
    /\ UNCHANGED <<schedVars, scan, remVars, aiVars>>

\* remove_task, line 198: self.scheduler.clear(task_name)
OtherRemoveClear ==
    /\ other.op = "remove_task" /\ other.pc = "clear"
    /\ RegistryFree
    /\ jobs' = Cleared(other.name)
    /\ job' = Collect(job, jobs', queue)
    /\ other' = [other EXCEPT !.pc = "compare", !.during = LoopAt,
                              !.had = (\E id \in Range(jobs) : HasTag(id, other.name))]
    /\ UNCHANGED <<now, ticks, is_running, scheduler_thread, pc, queue, raised, hpc, fg,
                   hooks, last, removedIdle, stopEver, stopped, scan, remVars, aiVars>>

\* remove_task, lines 199-204: removed = len(jobs) < initial_count; return removed
OtherRemoveReturn ==
    /\ other.op = "remove_task" /\ other.pc = "compare"
    /\ other' = [other EXCEPT !.pc = "returned",
                              !.ok = Removed(other.initial_count, jobs)]
    /\ UNCHANGED <<schedVars, scan, remVars, aiVars>>

\* lines 161-162: the while test; run_pending begins to iterate over self.jobs
ScanBegin(t) ==
    /\ pc[t] = "wait"
    /\ IF is_running
       THEN /\ pc' = [pc EXCEPT ![t] = "scan"]
            /\ scan' = [scan EXCEPT ![t] = 1]
            /\ queue' = [queue EXCEPT ![t] = <<>>]
       ELSE /\ pc' = [pc EXCEPT ![t] = "dead"]
            /\ UNCHANGED <<scan, queue>>
    /\ UNCHANGED <<now, ticks, jobs, job, is_running, raised, removedIdle>>
    /\ UNCHANGED <<hostVars, other, remVars, aiVars>>

\* run_pending: (job for job in self.jobs if job.should_run), the next list element
ScanStep(t) ==
    /\ pc[t] = "scan"
    /\ scan[t] <= Len(jobs)
    /\ LET id == jobs[scan[t]]
       IN  queue' = [queue EXCEPT ![t] =
                        IF ShouldRun(job[id], now) THEN Append(@, id) ELSE @]
    /\ scan' = [scan EXCEPT ![t] = @ + 1]
    /\ UNCHANGED <<now, ticks, jobs, job, is_running, pc, raised, removedIdle>>
    /\ UNCHANGED <<hostVars, other, remVars, aiVars>>

\* run_pending: the list is exhausted; sorted() orders what was collected
ScanEnd(t) ==
    /\ pc[t] = "scan"
    /\ scan[t] > Len(jobs)
    /\ queue' = [queue EXCEPT ![t] = Sorted(@)]
    /\ pc' = [pc EXCEPT ![t] = "poll"]
    /\ scan' = [scan EXCEPT ![t] = 0]
    /\ UNCHANGED <<now, ticks, jobs, job, is_running, raised, removedIdle>>
    /\ UNCHANGED <<hostVars, other, remVars, aiVars>>

\* schedule_reminder on the second host thread, lines 48-81: the checks, and the
\* Job made by every(interval).<unit>
OtherScheduleCall(task_name, trigger_time, task, unit) ==
    /\ other.pc = "idle"
    /\ \E out \in ScheduleOutcomes(task_name, trigger_time, task, unit, now) :
         LET call == [OtherIdle EXCEPT !.op = "schedule_reminder", !.name = task_name,
                                       !.at = now]
         IN  IF out.job = NoJob
             THEN other' = [call EXCEPT
                              !.pc = IF out.raised = "hang" THEN "hung" ELSE "returned"]
             ELSE other' = [call EXCEPT !.pc = "append", !.made = out.job]
    /\ UNCHANGED <<schedVars, scan, remVars, aiVars>>

\* do(task): self.scheduler.jobs.append(self), reached without waiting for the loop
OtherScheduleAppend ==
    /\ other.op = "schedule_reminder" /\ other.pc = "append"
    /\ RegistryFree
    /\ NewId <= MaxJobs
    /\ job' = [job EXCEPT ![NewId] = other.made]
    /\ jobs' = Append(jobs, NewId)
    /\ other' = [other EXCEPT !.pc = "returned", !.ok = TRUE, !.made = NoJob,
                              !.jid = NewId, !.during = LoopAt]
    /\ UNCHANGED <<now, ticks, is_running, scheduler_thread, pc, queue, raised, hpc, fg,
                   hooks, last, removedIdle, stopEver, stopped, scan, remVars, aiVars>>

\* get_pending_tasks on the second host thread: the call
OtherPendingCall ==
    /\ other.pc = "idle"
    /\ other' = [OtherIdle EXCEPT !.op = "get_pending_tasks", !.pc = "list", !.at = now]
    /\ UNCHANGED <<schedVars, scan, remVars, aiVars>>

\* get_pending_tasks, line 185: the list is built from self.scheduler.jobs
OtherPendingList ==
    /\ other.op = "get_pending_tasks" /\ other.pc = "list"
    /\ RegistryFree
    /\ other' = [other EXCEPT !.pc = "returned", !.initial_count = Len(PendingTasks),
                              !.during = LoopAt]
    /\ UNCHANGED <<schedVars, scan, remVars, aiVars>>

ConcCalls == {<<"a", Txt1, "ok", "seconds">>, <<"b", Txt1, "ok", "seconds">>}

ConcNext ==
    \/ \E c \in ConcCalls : ScheduleReminder(c[1], c[2], c[3], c[4])
    \/ \E n \in LoopNames : RemoveTask(n)
    \/ ClearAll
    \/ GetPendingTasks
    \/ Run(TRUE)
    \/ OtherRunGuard
    \/ OtherRunSet
    \/ OtherRunStart
    \/ \E n \in LoopNames : OtherRemoveCount(n)
    \/ OtherRemoveClear
    \/ OtherRemoveReturn
    \/ \E t \in Ctx : ScanBegin(t)
    \/ \E t \in Ctx : ScanStep(t)
    \/ \E t \in Ctx : ScanEnd(t)
    \/ \E t \in Ctx : RunJob(t)
    \/ \E t \in Ctx : PollDone(t)
    \/ Tick(1)

ConcSpec == Init /\ [][ConcNext]_vars

----------------------------------------------------------------------------
(* Registry calls from a second thread while the loop is inside a job action that
   never returns, under fair scheduling of that thread. *)

BlockNext ==
    \/ /\ NewId <= LifeJobs
       /\ \E c \in StopCalls : ScheduleReminder(c[1], c[2], c[3], c[4])
    \/ OtherScheduleCall("b", Txt1, "ok", "seconds")
    \/ OtherScheduleAppend
    \/ OtherPendingCall
    \/ OtherPendingList
    \/ \E n \in LoopNames : OtherRemoveCount(n)
    \/ OtherRemoveClear
    \/ OtherRemoveReturn
    \/ /\ AlreadyRunning \/ NewCtx <= PollRuns
       /\ Run(TRUE)
    \/ \E t \in Ctx : LoopCheck(t)
    \/ \E t \in Ctx : RunJob(t)
    \/ \E t \in Ctx : PollDone(t)
    \/ \E t \in Ctx : HandleError(t)
    \/ Tick(1)

\* a host thread inside a call goes on to its next statement
BlockFair ==
    WF_vars(OtherScheduleAppend \/ OtherPendingList \/ OtherRemoveClear
            \/ OtherRemoveReturn)

BlockSpec == Init /\ [][BlockNext]_vars /\ BlockFair

----------------------------------------------------------------------------
(* Registration while the loop polls, under fair scheduling of the loop: the
   host threads register, remove and clear while run_pending collects the due
   jobs one list element at a time and runs them; a raising job ends the loop. *)

AddNext ==
    \/ /\ NewId <= LifeJobs /\ other.pc # "append"
       /\ \E c \in LifeCalls : ScheduleReminder(c[1], c[2], c[3], c[4])
    \/ /\ NewId <= LifeJobs
       /\ OtherScheduleCall("a", Txt1, "ok", "seconds")
    \/ OtherScheduleAppend
    \/ \E n \in LoopNames : RemoveTask(n)
    \/ ClearAll
    \/ /\ AlreadyRunning \/ NewCtx <= PollRuns
       /\ Run(TRUE)
    \/ \E t \in Ctx : ScanBegin(t)
    \/ \E t \in Ctx : ScanStep(t)
    \/ \E t \in Ctx : ScanEnd(t)
    \/ \E t \in Ctx : RunJob(t)
    \/ \E t \in Ctx : PollDone(t)
    \/ \E t \in Ctx : HandleError(t)
    \/ Tick(1)

\* a loop thread that can take a step takes it
AddFair ==
    \A t \in Ctx : WF_vars(ScanBegin(t) \/ ScanStep(t) \/ ScanEnd(t) \/ RunJob(t)
                            \/ PollDone(t) \/ HandleError(t))

AddSpec == Init /\ [][AddNext]_vars /\ AddFair

----------------------------------------------------------------------------
(* RemindersManager: add, complete, delete, and a new manager loading the file *)

ReminderIds(r) == {r[i].id : i \in 1..Len(r)}

Max(S) == CHOOSE x \in S : \A y \in S : y <= x

\* _generate_id counting the reminders instead of taking the largest id
GenerateIdByCount == Len(reminders) + 1

\* _generate_id, lines 127-129
GenerateId ==
    IF reminders = <<>> THEN 1 ELSE Max(ReminderIds(reminders)) + 1

\* the first reminder with the id (0: none), as the loops of lines 164 and 185 find it
FirstWithId(reminder_id) ==
    IF reminder_id \in ReminderIds(reminders)
    THEN CHOOSE i \in 1..Len(reminders) :
            /\ reminders[i].id = reminder_id
            /\ \A k \in 1..(i - 1) : reminders[k].id # reminder_id
    ELSE 0

\* _save_reminders, lines 81-87: the file takes the list r, or the write raises
SaveReminders(r, saved) ==
    reminders_file' = IF saved THEN r ELSE reminders_file

\* add_reminder, lines 103-118
AddReminder(saved) ==
    /\ GenerateId <= MaxId
    /\ reminders' = Append(reminders, [id |-> GenerateId, completed |-> FALSE])
    /\ SaveReminders(reminders', saved)
    /\ rem_last' = [op |-> "add", id |-> GenerateId, ok |-> saved]
    /\ UNCHANGED <<schedVars, concVars, aiVars>>

\* complete_reminder, lines 164-173
CompleteReminder(reminder_id, saved) ==
    /\ LET i == FirstWithId(reminder_id)
       IN  IF i = 0
           THEN /\ rem_last' = [op |-> "complete", id |-> reminder_id, ok |-> FALSE]
                /\ UNCHANGED <<reminders, reminders_file>>
           ELSE /\ reminders' = [reminders EXCEPT ![i].completed = TRUE]
                /\ SaveReminders(reminders', saved)
                /\ rem_last' = [op |-> "complete", id |-> reminder_id, ok |-> saved]
    /\ UNCHANGED <<schedVars, concVars, aiVars>>

\* delete_reminder, lines 185-193
DeleteReminder(reminder_id, saved) ==
    /\ LET i == FirstWithId(reminder_id)
       IN  IF i = 0
           THEN /\ rem_last' = [op |-> "delete", id |-> reminder_id, ok |-> FALSE]
                /\ UNCHANGED <<reminders, reminders_file>>
           ELSE /\ reminders' = SubSeq(reminders, 1, i - 1)
                                   \o SubSeq(reminders, i + 1, Len(reminders))
                /\ SaveReminders(reminders', saved)
                /\ rem_last' = [op |-> "delete", id |-> reminder_id, ok |-> saved]
    /\ UNCHANGED <<schedVars, concVars, aiVars>>

\* RemindersManager(), lines 58-60: a new manager loads the list in the file
LoadReminders ==
    /\ reminders' = reminders_file
    /\ rem_last' = [op |-> "load", id |-> 0, ok |-> TRUE]
    /\ UNCHANGED reminders_file
    /\ UNCHANGED <<schedVars, concVars, aiVars>>

RemNext ==
    \/ \E saved \in BOOLEAN : AddReminder(saved)
    \/ \E reminder_id \in 1..(MaxId + 1) : \E saved \in BOOLEAN :
          CompleteReminder(reminder_id, saved)
    \/ \E reminder_id \in 1..(MaxId + 1) : \E saved \in BOOLEAN :
          DeleteReminder(reminder_id, saved)
    \/ LoadReminders

RemSpec == Init /\ [][RemNext]_vars

----------------------------------------------------------------------------
(* AIQuery: query, clear_history, get_history, set_system_prompt *)

\* query, line 96: the number of messages kept
HistoryLimit == 10

Message(role, content) == [role |-> role, content |-> content]

\* query, lines 96-97: history[-HistoryLimit:] of a longer history
KeepLast(h) ==
    IF Len(h) > HistoryLimit THEN SubSeq(h, Len(h) - HistoryLimit + 1, Len(h)) ELSE h

\* query, lines 73-77: the messages sent to the API
Messages(prompt, use_history) ==
    (IF use_history THEN conversation_history ELSE <<>>)
        \o <<Message("user", prompt)>>

\* query(prompt, use_history): the API call raises, or answers with reply
Query(prompt, use_history, reply) ==
    /\ IF reply = "error"
       THEN /\ ai_last' = [op |-> "query", raised |-> "Exception",
                           sent |-> Len(Messages(prompt, use_history))]
            /\ UNCHANGED conversation_history
       ELSE /\ ai_last' = [op |-> "query", raised |-> "none",
                           sent |-> Len(Messages(prompt, use_history))]
            /\ conversation_history' =
                  IF use_history
                  THEN KeepLast(conversation_history
                                \o <<Message("user", prompt), Message("assistant", reply)>>)
                  ELSE conversation_history
    /\ UNCHANGED <<system_prompt, schedVars, remVars, concVars>>

\* clear_history()
ClearHistory ==
    /\ conversation_history' = <<>>
    /\ system_prompt' = <<>>
    /\ ai_last' = [op |-> "clear_history", raised |-> "none", sent |-> 0]
    /\ UNCHANGED <<schedVars, remVars, concVars>>

\* get_history(): a copy of the list
GetHistory ==
    /\ ai_last' = [op |-> "get_history", raised |-> "none", sent |-> 0]
    /\ UNCHANGED <<conversation_history, system_prompt, schedVars, remVars, concVars>>

\* set_system_prompt(text), lines 130-133: replace a leading system message, or
\* insert one at the front
SetSystemPrompt(text) ==
    /\ conversation_history' =
          IF conversation_history # <<>> /\ conversation_history[1].role = "system"
          THEN [conversation_history EXCEPT ![1] = Message("system", text)]
          ELSE <<Message("system", text)>> \o conversation_history
    /\ system_prompt' = <<text>>
    /\ ai_last' = [op |-> "set_system_prompt", raised |-> "none", sent |-> 0]
    /\ UNCHANGED <<schedVars, remVars, concVars>>

Prompts == {"p1", "p2"}
Replies == {"r1", "error"}
SystemPrompts == {"s1", "s2"}

AiNext ==
    \/ \E prompt \in Prompts, use_history \in BOOLEAN, reply \in Replies :
          Query(prompt, use_history, reply)
    \/ ClearHistory
    \/ GetHistory
    \/ \E text \in SystemPrompts : SetSystemPrompt(text)

AiSpec == Init /\ [][AiNext]_vars

----------------------------------------------------------------------------
(* Properties *)

LiveLoops == {t \in Ctx : Alive(t)}

Polling == {t \in Ctx : pc[t] = "poll"}

NoRepeat(q) == \A i, k \in 1..Len(q) : i # k => q[i] # q[k]

Errors == {"ValueError", "TypeError", "RuntimeError"}

\* the text of a positive integer
PositiveInteger(s) == s # <<>> /\ AllDigits(s) /\ DecVal(s) >= 1

\* the text of a time of day, HH:MM with HH in 00..23 and MM in 00..59
TimeOfDayText(s) ==
    /\ Len(s) = 5
    /\ s[3] = ":"
    /\ \A i \in {1, 2, 4, 5} : IsDigit(s[i])
    /\ DecVal(SubSeq(s, 1, 2)) <= 23
    /\ DecVal(SubSeq(s, 4, 5)) <= 59

C2_FailingJobAdvances ==
    \A t \in Ctx :
        raised[t].id # None =>
            /\ job[raised[t].id] # Gone =>
                  job[raised[t].id].next_run > raised[t].next_run
            /\ (pc[t] = "dead" /\ ~stopEver) => is_running

\* C3: a raising action neither aborts its poll nor ends the loop: no due job of
\* that poll is left unexecuted, and the loop context goes on.
C3_RaiseIsContained ==
    \A t \in Ctx :
        raised[t].id # None =>
            /\ raised[t].dropped = 0
            /\ pc[t] \notin {"handler", "dead"}

\* C4: stop() never raises and leaves is_running false; called on a scheduler that
\* is not running it changes nothing.
C4_StopIdempotent ==
    last.op = "stop" =>
        /\ last.raised = "none"
        /\ ~is_running
        /\ ~last.had => ~last.changed

\* C4 witness: a stop() that cleared the flag was followed, with no loop failure
\* and no new run(), by a stop() on the stopped scheduler.
C4_Witness ==
    /\ last.op = "stop" /\ ~last.had
    /\ stopEver
    /\ \A t \in Ctx : raised[t].id = None
    /\ NewCtx = 2

\* C5: no two jobs of the registry carry the same name.
C5_UniqueNames ==
    \A i, k \in 1..Len(jobs) :
        i # k => job[jobs[i]].tags \cap job[jobs[k]].tags = {}

\* a step in which loop context t runs the action of job id
Executes(t, id) ==
    /\ pc[t] = "poll"
    /\ queue[t] # <<>>
    /\ Head(queue[t]) = id
    /\ queue'[t] # queue[t]

\* C6: a job that was registered under the name of a remove_task call made while
\* no loop context was inside a poll is never executed afterwards, and every job
\* that get_pending_tasks lists under that name was registered after the call.
C6_RemovedBetweenPolls ==
    /\ [](\A r \in removedIdle : \A i \in 1..Len(PendingTasks) :
             r.name \in PendingTasks[i] => jobs[i] >= r.fence)
    /\ [][\A t \in Ctx : \A r \in removedIdle : ~Executes(t, r.id)]_vars

\* C6 witness: after such a removal a loop context is inside a poll, with a due
\* job to run.
C6_Witness ==
    /\ removedIdle # {}
    /\ \E t \in Ctx : pc[t] = "poll" /\ queue[t] # <<>>

\* C7: after remove_task(name) no entry of get_pending_tasks() carries name, and
\* when name was not registered the call returns False and the registry keeps
\* its length.
C7_RemoveRoundTrip ==
    last.op = "remove_task" =>
        /\ \A i \in 1..Len(PendingTasks) : last.name \notin PendingTasks[i]
        /\ ~last.had => (~last.ok /\ Len(jobs) = last.count)

\* C7 witness: remove_task has removed a name that was registered twice.
C7_Witness ==
    /\ last.op = "remove_task" /\ last.had /\ last.ok
    /\ last.count = 2 /\ jobs = <<>>

\* C8: schedule_reminder with a unit outside days/hours/minutes/seconds raises and
\* leaves the registry and its jobs as they were.
C8_InvalidUnitRejected ==
    (last.op = "schedule_reminder" /\ last.unit \notin ValidUnits) =>
        /\ last.raised \in Errors
        /\ ~last.changed
        /\ Len(jobs) = last.count

\* C8 witness: such a call, with a valid name, text and task, on a registry that
\* holds a job.
C8_Witness ==
    /\ last.op = "schedule_reminder" /\ last.unit \notin ValidUnits
    /\ last.name # "" /\ last.trig = Txt1 /\ last.task = "none"
    /\ jobs # <<>>

\* C9: schedule_reminder with unit hours, minutes or seconds and a trigger_time
\* that is not the text of a positive integer raises an error and adds no job.
C9_NonPositiveRejected ==
    (/\ last.op = "schedule_reminder"
     /\ last.unit \in {"hours", "minutes", "seconds"}
     /\ ~PositiveInteger(last.trig)) =>
        /\ last.raised \in Errors
        /\ ~last.changed

ValidPair(unit, trig) ==
    \/ unit = "days" /\ TimeOfDayText(trig)
    \/ unit \in {"hours", "minutes", "seconds"} /\ PositiveInteger(trig)

\* C10: schedule_reminder with a name, a callable or absent task and a valid
\* (unit, trigger_time) pair returns a job whose next_run is later than the
\* clock at the call.
C10_NextRunInFuture ==
    (/\ last.op = "schedule_reminder"
     /\ last.name # "" /\ last.task # "notcallable"
     /\ ValidPair(last.unit, last.trig)) =>
        /\ last.raised = "none"
        /\ last.jid # None
        /\ job[last.jid].next_run > last.at

\* C10 witness: a daily job registered for a time of day that is not ahead of
\* the clock.
C10_Witness ==
    /\ last.op = "schedule_reminder" /\ last.raised = "none"
    /\ last.unit = "days" /\ TimeOfDayText(last.trig)
    /\ AtTime(last.trig) <= TimeOfDay(last.at)

\* the host's most recent call registered a daily job for the minute the clock
\* stood in, and no action of that job has run since
DailyForThisMinute ==
    /\ last.op = "schedule_reminder" /\ last.raised = "none"
    /\ last.unit = "days"
    /\ AtTime(last.trig) = TimeOfDay(last.at) - (last.at % SecPerMinute)
    /\ last.jid \in Range(jobs)
    /\ job[last.jid] =
          NewJob(last.name, "days", 1, TRUE, AtTime(last.trig), last.task, last.at)

\* C11: a poll that begins while a daily job registered for the current minute has
\* not run yet finds that job due, and the run of a daily job moves its next_run
\* to the same time of day one day later, so the next poll does not run it again.
C11_DailyAtNowRunsOnce ==
    /\ [][\A t \in Ctx :
            (pc[t] = "wait" /\ pc'[t] = "poll" /\ DailyForThisMinute)
                => last.jid \in Range(queue'[t])]_vars
    /\ [][\A t \in Ctx : \A id \in JobIds :
            (Executes(t, id) /\ job[id].has_at /\ job'[id] # Gone
             /\ TimeOfDay(now) - job[id].at \in 0..(SecPerMinute - 1))
                => job'[id].next_run = Midnight(now) + SecPerDay + job[id].at]_vars

\* C12: the list get_pending_tasks returns has one entry per registered job, and
\* the entry of a job is the job's name, a string.
C12_ListingOfNames ==
    last.op = "get_pending_tasks" =>
        /\ Len(last.listing) = Len(jobs)
        /\ \A i \in 1..Len(last.listing) :
              \E n \in job[jobs[i]].tags : last.listing[i] = PyStr(n)

\* C13: a stop() that waits for the loop thread ends its wait, whether the loop
\* thread is asleep, polling or inside an action that never returns; when stop()
\* has returned is_running is false.
C13_StopReturns ==
    /\ [](last.op = "stop" /\ hpc = "idle" => ~is_running)
    /\ (hpc = "joining") ~> (hpc = "idle")

\* C13 witness: stop() has returned while the loop thread is inside an action
\* that never returns.
C13_Witness ==
    /\ last.op = "stop" /\ last.had /\ hpc = "idle"
    /\ scheduler_thread # None /\ pc[scheduler_thread] = "blocked"

\* C14: once a run() that started a loop has returned, exactly one exit hook is
\* registered, however many run()/stop() cycles there were.
C14_OneExitHook ==
    (NewCtx > 1 /\ hpc # "looping") => hooks = 1

\* C15: the stored reminders have pairwise distinct ids, in the manager's list and
\* in the file; the reminder add_reminder has just appended carries the id it
\* returned, the largest of the list, and id 1 when it is the only one.
C15_DistinctIds ==
    /\ \A i, k \in 1..Len(reminders) : i # k => reminders[i].id # reminders[k].id
    /\ \A i, k \in 1..Len(reminders_file) :
          i # k => reminders_file[i].id # reminders_file[k].id
    /\ rem_last.op = "add" =>
          /\ reminders[Len(reminders)].id = rem_last.id
          /\ \A i \in 1..(Len(reminders) - 1) : reminders[i].id < rem_last.id
          /\ Len(reminders) = 1 => rem_last.id = 1

\* C15 witness: add_reminder on a store that has lost its first reminder to
\* delete_reminder and holds a completed one.
C15_Witness ==
    /\ rem_last.op = "add" /\ Len(reminders) = 2
    /\ 1 \notin ReminderIds(reminders)
    /\ reminders[1].completed

\* the loop contexts inside run_pending with a job action running or about to run
Acting == {t \in Ctx : pc[t] \in {"poll", "blocked"} /\ queue[t] # <<>>}

\* C16: at most one loop context is polling and running job actions, whatever
\* run() and stop() calls were made.
C16_OneLoopActs ==
    Cardinality(Acting) <= 1

\* C17: a loop context that was alive when a stop() cleared is_running begins no
\* poll afterwards, whatever calls follow.
C17_NoPollAfterStop ==
    [][\A t \in stopped : ~(pc[t] = "wait" /\ pc'[t] = "poll")]_vars

\* C18: when a run(background=True) of each host thread has returned, on a
\* scheduler that nobody stopped and whose loops have not failed, exactly one
\* loop thread has been started and one exit hook registered.
C18_OneStarterOfTwo ==
    (/\ last.op = "run" /\ last.ok
     /\ other.op = "run" /\ other.pc = "returned"
     /\ ~stopEver /\ \A t \in Ctx : raised[t].id = None) =>
        /\ Cardinality({t \in Ctx : pc[t] # "unborn"}) = 1
        /\ hooks = 1

\* a step in which a host thread changes the registry or lists it
Accesses ==
    \/ jobs' # jobs
    \/ last' # last /\ last'.op = "get_pending_tasks"

\* C19: no host thread changes or lists the job collection while a loop context
\* is between the first and the last element of its scan for due jobs.
C19_ExclusiveAccess ==
    [][Accesses => \A t \in Ctx : pc[t] # "scan"]_vars

\* C20: remove_task returns True exactly when its clear() removed a job that was
\* registered under the name.
C20_RemoveResult ==
    (other.op = "remove_task" /\ other.pc = "returned") => (other.ok = other.had)

\* a step of the host that is a clear_all() or a remove_task of a name job id is
\* registered under
RemovesJob(id) ==
    /\ UNCHANGED <<pc, queue, scan, now, other>>
    /\ \/ last'.op = "clear_all"
       \/ last'.op = "remove_task" /\ last'.name \in job[id].tags

\* a loop context is going through its polls
LoopRuns == is_running /\ \E t \in Ctx : pc[t] \in {"wait", "scan", "poll"}

OtherInCall == other.pc \in {"append", "list", "clear", "compare"}

\* C22: a schedule_reminder, remove_task or get_pending_tasks call made from another
\* thread returns, also while a loop context is inside a job action that never
\* returns.
C22_HostNotBlocked == OtherInCall ~> (other.pc = "returned")

\* C22 witness: a call of the second thread reached the job list while a loop
\* context was inside a job action that never returns, and has returned.
C22_Witness ==
    /\ other.pc = "returned"
    /\ "blocked" \in other.during
    /\ \E t \in Ctx : pc[t] = "blocked"

\* C23: a poll runs its due jobs in registration order: when a loop context runs a
\* job's action, no job still to be run in that poll was registered before it.
C23_RegistryOrder ==
    [][\A t \in Ctx : \A id \in JobIds :
          Executes(t, id) => \A k \in 2..Len(queue[t]) : queue[t][k] > id]_vars

\* C24: whatever a job action returns, the registry is the same after the action
\* as before it, and the job has been rescheduled to a later next_run.
C24_ReturnValueIgnored ==
    [][\A t \in Ctx : \A id \in Range(jobs) :
          (Executes(t, id) /\ pc'[t] = "poll") =>
              /\ jobs' = jobs
              /\ job'[id].next_run > job[id].next_run]_vars

\* C25: a poll holds each job at most once, whatever time has passed since the
\* job's last run, and when a job's action has run the job's next_run is later
\* than the clock of that run.
C25_NoBackfill ==
    /\ [](\A t \in Ctx : NoRepeat(queue[t]))
    /\ [][\A t \in Ctx : \A id \in Range(jobs) :
            (Executes(t, id) /\ pc'[t] = "poll" /\ id \in Range(jobs')) =>
                job'[id].next_run > now]_vars

\* C26: whenever is_running is false and the host is inside no run() or stop()
\* call, scheduler_thread is None.
C26_HandleNoneWhenStopped ==
    (~is_running /\ hpc = "idle") => scheduler_thread = None

\* C27: conversation_history never holds more than HistoryLimit messages.
C27_HistoryBounded == Len(conversation_history) <= HistoryLimit

\* the positions of the system messages of the history
SystemAt == {i \in 1..Len(conversation_history) : conversation_history[i].role = "system"}

\* C30: from a set_system_prompt call until the next clear_history, the history
\* holds exactly one system message, as its first entry.
C30_OneSystemMessageFirst == system_prompt # <<>> => SystemAt = {1}

\* a run() call is between the assignment of line 136 and the start of its loop,
\* or between the end of its foreground loop and its return
RunInProgress ==
    \/ other.pc = "start"
    \/ hpc = "looping" /\ ~Alive(fg)

\* C28: whenever is_running is true and no run() call is in progress, some loop
\* context (background thread or foreground caller) is alive.
C28_RunningHasLoop ==
    (is_running /\ ~RunInProgress) => \E t \in Ctx : Alive(t)

\* C29: when the host's latest call is a remove_task(name) that has returned, so
\* that the name has not been scheduled again, no loop context starts the action
\* of a job registered under that name.
C29_RemovedNeverStarts ==
    [][\A t \in Ctx : \A id \in JobIds :
          (last.op = "remove_task" /\ Executes(t, id)) =>
              last.name \notin job[id].tags]_vars

====
